---- MODULE Spec2Model ----
(***************************************************************************)
(* A model of streamlit_app.py: the retry wrapper retry_with_backoff, the  *)
(* regime classifier get_regime_filter, the per-instrument metrics of      *)
(* get_stock_data, the two st.cache_data caches and the refresh cycle of   *)
(* main().                                                                 *)
(*                                                                         *)
(* Conventions.                                                            *)
(*  - A zero-argument operation func is a sequence: func[n] is what its    *)
(*    n-th invocation does, [kind |-> "ok", val |-> v] (it returns v) or   *)
(*    [kind |-> "err", msg |-> m] (it raises an exception whose str() is   *)
(*    m).                                                                  *)
(*  - Text is a sequence of one-character strings, so that str.lower() and *)
(*    the substring test are computed rather than assumed.                 *)
(*  - Durations of the retry wrapper are in units of half a second         *)
(*    (base_delay 0.5 is 1, base_delay 1 is 2, a jitter of 1.0 is 2).      *)
(*    Cache ages and the refresh sleep are in seconds.                     *)
(*  - A float is an exact fraction [num, den] with den > 0.                *)
(***************************************************************************)
EXTENDS Integers, Sequences, FiniteSets, TLC

VARIABLES
    \* ---- retry_with_backoff called on its own (SpecRetry)
    r_func,        \* the operation: what each invocation does
    r_max,         \* max_retries
    r_base,        \* base_delay
    r_jit,         \* the draws of random.uniform(0, 1), one per attempt
    r_res          \* the call's outcome, or Pending before the call

retryVars == <<r_func, r_max, r_base, r_jit, r_res>>

VARIABLES
    \* ---- get_stock_data called on its own (SpecMetrics)
    m_ticker,      \* the ticker asked for
    m_resps,       \* what the market-data source answers, call by call
    m_jit,         \* the draws of random.uniform(0, 1)
    m_res          \* [data, calls, sleeps], or Pending before the call

metricsVars == <<m_ticker, m_resps, m_jit, m_res>>

VARIABLES
    \* ---- get_regime_filter's body called on its own (SpecRegime)
    g_resps,       \* what the market-data source answers for SPY, call by call
    g_jit,         \* the draws of random.uniform(0, 1)
    g_res          \* [kind, val, calls], or Pending before the call

regimeVars == <<g_resps, g_jit, g_res>>

VARIABLES
    \* ---- the dashboard: one session's runs of main() (Spec)
    pc,                    \* where the script is
    auto_refresh,          \* the checkbox of line 211
    num_stocks,            \* the slider of line 213
    regime,                \* main's local `regime`
    tickers,               \* main's local `tickers`
    loop_i,                \* iterations of the loop of line 265 completed
    stock_data,            \* main's local `stock_data`
    failed_count,          \* main's local `failed_count`
    consecutive_failures,  \* main's local `consecutive_failures`
    view,                  \* what is shown: [kind, rows, ...]
    regime_cache,          \* st.cache_data's entry for get_regime_filter
    tickers_cache,         \* st.cache_data's entry for get_sp500_tickers
    \* ---- history variables
    trigger,               \* what started this run
    regime_src,            \* this run's regime: "fetch" or "cache"
    regime_age,            \* the age of the cached regime when it was used
    tickers_src,           \* this run's universe: "fetch" or "cache"
    last_fetch             \* the last instrument: the first answer to its
                           \* fetch, the fetches made, whether a row came out

mainVars == <<pc, auto_refresh, num_stocks, regime, tickers, loop_i, stock_data,
              failed_count, consecutive_failures, view, regime_cache,
              tickers_cache>>

histVars == <<trigger, regime_src, regime_age, tickers_src, last_fetch>>

vars == <<retryVars, metricsVars, regimeVars, mainVars, histVars>>

\* ------------------------------------------------------------------ bounds

\* The largest max_retries tried; an operation is scripted for that many calls.
MaxRetries == 3
\* The longest price history tried (the window is 100 bars, the threshold 50).
MaxBars == 102
\* The symbols kept of the fallback universe (the code lists 10).
FallbackCount == 2
\* The symbols of the listing (the S&P 500 table has about 500 rows).
ListedCount == 3
\* The slider's range, scaled like the universe (the code's is 10..500, from
\* the length of the fallback universe up to about that of the listing).
SliderMin == 2
SliderMax == 3
\* The seconds one slow iteration of the instrument loop takes.
SlowIteration == 150
\* The largest jitter drawn, in half seconds (random.uniform(0, 1) <= 1.0).
JitterMax == 2

\* ------------------------------------------------------------------ values

\* Python's None.
None == [none |-> TRUE]

Pending == [kind |-> "pending"]

\* ------------------------------------------------------------------ text

UpperCase == <<"A","B","C","D","E","F","G","H","I","J","K","L","M",
               "N","O","P","Q","R","S","T","U","V","W","X","Y","Z">>
LowerCase == <<"a","b","c","d","e","f","g","h","i","j","k","l","m",
               "n","o","p","q","r","s","t","u","v","w","x","y","z">>

\* str.lower() on one character.
LowerChar(c) ==
    IF \E k \in 1..Len(UpperCase) : UpperCase[k] = c
    THEN LowerCase[CHOOSE k \in 1..Len(UpperCase) : UpperCase[k] = c]
    ELSE c

\* str.lower()
Lower(s) == [k \in 1..Len(s) |-> LowerChar(s[k])]

\* Python's `pat in s` on strings.
Contains(s, pat) ==
    \E k \in 0..(Len(s) - Len(pat)) : SubSeq(s, k + 1, k + Len(pat)) = pat

PatRateLimit == <<"r","a","t","e"," ","l","i","m","i","t">>
PatTooMany == <<"t","o","o"," ","m","a","n","y"," ","r","e","q","u","e","s","t","s">>

\* The messages an upstream failure may carry.
MsgRateLimit == <<"R","a","t","e"," ","L","i","m","i","t","e","d">>
MsgTooMany == <<"4","2","9"," ","T","o","o"," ","M","a","n","y"," ",
                "R","e","q","u","e","s","t","s">>
MsgNotFound == <<"N","o"," ","d","a","t","a"," ","f","o","u","n","d">>
MsgNearMiss == <<"r","a","t","e","-","l","i","m","i","t">>

\* A faulty variant: the case-sensitive test.
IsRateLimitError_NoLower(msg) ==
    Contains(msg, PatRateLimit) \/ Contains(msg, PatTooMany)

\* A faulty variant: every failure is taken for a transient one.
IsRateLimitError_Always(msg) == TRUE

\* The test of line 95.
IsRateLimitError(msg) ==
    Contains(Lower(msg), PatRateLimit) \/ Contains(Lower(msg), PatTooMany)


\* ------------------------------------------------------------------ retry

RECURSIVE RetryLoop_OffByOne(_, _, _, _, _, _)
\* A faulty variant: `attempt < max_retries` at line 96, so that the last failed attempt
\* sleeps too and the loop falls through to line 101.
RetryLoop_OffByOne(func, max_retries, base_delay, jitter, attempt, sleeps) ==
    IF attempt >= max_retries
    THEN [kind |-> "none", val |-> None, msg |-> <<>>,
          calls |-> attempt, sleeps |-> sleeps]
    ELSE LET r == func[attempt + 1] IN
         IF r.kind = "ok"
         THEN [kind |-> "return", val |-> r.val, msg |-> <<>>,
               calls |-> attempt + 1, sleeps |-> sleeps]
         ELSE IF IsRateLimitError(r.msg) /\ attempt < max_retries
         THEN RetryLoop_OffByOne(func, max_retries, base_delay, jitter, attempt + 1,
                        Append(sleeps,
                               base_delay * (2 ^ attempt) + jitter[attempt + 1]))
         ELSE [kind |-> "raise", val |-> None, msg |-> r.msg,
               calls |-> attempt + 1, sleeps |-> sleeps]

RECURSIVE RetryLoop(_, _, _, _, _, _)
\* The for loop of retry_with_backoff from `attempt` on; `sleeps` are the
\* time.sleep calls made so far.  kind is "return" (line 93), "raise"
\* (line 100) or "none" (line 101).
RetryLoop(func, max_retries, base_delay, jitter, attempt, sleeps) ==
    IF attempt >= max_retries
    THEN [kind |-> "none", val |-> None, msg |-> <<>>,
          calls |-> attempt, sleeps |-> sleeps]
    ELSE LET r == func[attempt + 1] IN
         IF r.kind = "ok"
         THEN [kind |-> "return", val |-> r.val, msg |-> <<>>,
               calls |-> attempt + 1, sleeps |-> sleeps]
         ELSE IF IsRateLimitError(r.msg) /\ attempt < max_retries - 1
         THEN RetryLoop(func, max_retries, base_delay, jitter, attempt + 1,
                        Append(sleeps,
                               base_delay * (2 ^ attempt) + jitter[attempt + 1]))
         ELSE [kind |-> "raise", val |-> None, msg |-> r.msg,
               calls |-> attempt + 1, sleeps |-> sleeps]

retry_with_backoff(func, max_retries, base_delay, jitter) ==
    RetryLoop(func, max_retries, base_delay, jitter, 0, <<>>)

\* ---------------------------------------------- SpecRetry: the wrapper alone

Ok(v) == [kind |-> "ok", val |-> v]
Err(m) == [kind |-> "err", msg |-> m]

\* What one invocation of a scripted operation may do.
OpOutcomes == {Ok([v |-> 1]), Ok([v |-> 2]), Err(MsgRateLimit), Err(MsgTooMany),
               Err(MsgNotFound), Err(MsgNearMiss)}

Jitters == {0, JitterMax}

RetryIdle ==
    /\ r_func = <<>>
    /\ r_max = 0
    /\ r_base = 0
    /\ r_jit = <<>>
    /\ r_res = Pending

MetricsIdle ==
    /\ m_ticker = <<>>
    /\ m_resps = <<>>
    /\ m_jit = <<>>
    /\ m_res = Pending

RegimeIdle ==
    /\ g_resps = <<>>
    /\ g_jit = <<>>
    /\ g_res = Pending

NoRegimeEntry == [has |-> FALSE, val |-> "", age |-> 0]
NoTickersEntry == [has |-> FALSE, val |-> <<>>, age |-> 0]
NoFetch == [kind |-> "none", msg |-> <<>>, bars |-> 0, calls |-> 0, row |-> FALSE]
NoView == [kind |-> "none", rows |-> <<>>, processed |-> 0, up |-> 0, down |-> 0,
           failed |-> 0]

MainIdle ==
    /\ pc = "off"
    /\ auto_refresh = TRUE
    /\ num_stocks = 0
    /\ regime = "unset"
    /\ tickers = <<>>
    /\ loop_i = 0
    /\ stock_data = <<>>
    /\ failed_count = 0
    /\ consecutive_failures = 0
    /\ view = NoView
    /\ regime_cache = NoRegimeEntry
    /\ tickers_cache = NoTickersEntry
    /\ trigger = "none"
    /\ regime_src = "none"
    /\ regime_age = 0
    /\ tickers_src = "none"
    /\ last_fetch = NoFetch

InitRetry ==
    /\ MetricsIdle
    /\ RegimeIdle
    /\ MainIdle
    /\ r_func \in [1..MaxRetries -> OpOutcomes]
    /\ r_max \in (0 - 1)..MaxRetries
    /\ r_base \in {1, 2}
    /\ r_jit \in [1..MaxRetries -> Jitters]
    /\ r_res = Pending

CallRetry ==
    /\ r_res = Pending
    /\ r_res' = retry_with_backoff(r_func, r_max, r_base, r_jit)
    /\ UNCHANGED <<r_func, r_max, r_base, r_jit, metricsVars, regimeVars,
                   mainVars, histVars>>

NextRetry == CallRetry

SpecRetry == InitRetry /\ [][NextRetry]_vars

\* ------------------------------------------------------- the universe

\* The hardcoded universe of line 87.
FallbackList == <<
    <<"A","A","P","L">>, <<"M","S","F","T">>, <<"G","O","O","G","L">>,
    <<"A","M","Z","N">>, <<"N","V","D","A">>, <<"M","E","T","A">>,
    <<"T","S","L","A">>, <<"B","R","K","-","B">>, <<"U","N","H">>,
    <<"J","N","J">> >>

FallbackTickers == SubSeq(FallbackList, 1, FallbackCount)

\* The 'Symbol' column of the listing's first table.
ListedTable == <<
    <<"M","M","M">>, <<"B","R","K",".","B">>, <<"A","A","P","L">>,
    <<"B","F",".","B">>, <<"M","S","F","T">>, <<"N","V","D","A">> >>

ListedSymbols == SubSeq(ListedTable, 1, ListedCount)

\* What pd.read_html answers: it raises, or it gives the table.
ListingErr == [kind |-> "err", symbols |-> <<>>]
ListingOk == [kind |-> "table", symbols |-> ListedSymbols]

\* ticker.replace('.', '-')
ReplaceDot(sym) == [k \in 1..Len(sym) |-> IF sym[k] = "." THEN "-" ELSE sym[k]]

\* The body of get_sp500_tickers (without its cache), lines 78-87.
get_sp500_tickers(resp) ==
    IF resp.kind = "err"
    THEN [kind |-> "return", val |-> FallbackTickers]
    ELSE [kind |-> "return",
          val |-> [k \in 1..Len(resp.symbols) |-> ReplaceDot(resp.symbols[k])]]

\* ------------------------------------------------------- the market data

\* One trading session; only the columns the code reads.
Bar(c, h) == [Close |-> c, High |-> h]

\* The close of bar i of a history of a given shape.
ShapeClose(shape, i) ==
    CASE shape = "flat" -> 100
      [] shape = "up" -> 100 + i
      [] shape = "down" -> 300 - i
      [] shape = "saw" -> 100 + 3 * (i % 7)

Shapes == {"flat", "up", "down", "saw"}

\* A DataFrame: its rows, oldest first.  (A record, so that `is None` can be
\* asked of it.)
DataFrame(bars) == [rows |-> bars]

\* len(df), df.empty
Length(df) == Len(df.rows)

\* A price history of n bars.
MakeHist(n, shape) ==
    DataFrame([i \in 1..n |-> Bar(ShapeClose(shape, i), ShapeClose(shape, i) + 2)])

\* stock.info: it raises, or it is a dict with or without 'longName'.
InfoRaises == [kind |-> "raises", has |-> FALSE, longName |-> <<>>]
InfoEmpty == [kind |-> "dict", has |-> FALSE, longName |-> <<>>]
InfoNamed == [kind |-> "dict", has |-> TRUE,
              longName |-> <<"A","p","p","l","e"," ","I","n","c",".">>]

\* What the market-data source answers to one fetch: stock.history raises, or
\* it gives a (possibly empty) history, and then stock.info is read.
RespErr(m) ==
    [kind |-> "err", msg |-> m, hist |-> DataFrame(<<>>), info |-> InfoRaises]
RespHist(h, info) == [kind |-> "hist", msg |-> <<>>, hist |-> h, info |-> info]

\* ------------------------------------------------------- floats

Frac(n, d) == [num |-> n, den |-> d]

\* ((a - b) / b) * 100
PctChange(a, b) == Frac((a - b) * 100, b)

Abs(x) == IF x < 0 THEN 0 - x ELSE x

Min(a, b) == IF a < b THEN a ELSE b

\* n / d to the nearest integer, ties to even (n >= 0, d > 0): the rounding of
\* a fixed-precision format.
RoundDiv(n, d) ==
    LET q == n \div d
        r == n % d
    IN  IF 2 * r > d THEN q + 1
        ELSE IF 2 * r < d THEN q
        ELSE IF q % 2 = 0 THEN q ELSE q + 1

\* f"{x:+.2f}%": the sign and the hundredths.
FmtSigned(x) ==
    [sign |-> IF x.num < 0 THEN "-" ELSE "+",
     hundredths |-> RoundDiv(Abs(x.num) * 100, x.den)]

\* f"${x:.2f}" of a price.
FmtMoney(p) == [hundredths |-> p * 100]

\* ------------------------------------------------------- get_stock_data

\* hist.tail(n)
HistTail(hist, n) ==
    DataFrame(SubSeq(hist.rows, Length(hist) - n + 1, Length(hist)))

\* twenty_week_data['High'].max()
MaxHigh(data) ==
    LET highs == {data.rows[k].High : k \in 1..Length(data)}
    IN  CHOOSE h \in highs : \A x \in highs : x <= h

\* The trailing window, in bars (line 165).
WindowBars == 100
\* The bars the window needs for a rate of change (line 168).
RocMinBars == 50
\* max_retries and base_delay (0.5 s) of the per-instrument fetch (line 155).
StockMaxRetries == 2
StockBaseDelay == 1

\* 'Regime': None of line 181, in a column that otherwise holds strings.
NoRegime == "None"

\* A faulty variant: the strict version's threshold, the window's full length.
Metrics_StrictThreshold(hist, ticker, company_name) ==
    LET current_price == hist.rows[Length(hist)].Close
        prev_close == IF Length(hist) >= 2 THEN hist.rows[Length(hist) - 1].Close
                      ELSE current_price
        pct_change == PctChange(current_price, prev_close)
        twenty_week_data == HistTail(hist, Min(WindowBars, Length(hist)))
        twenty_week_high == MaxHigh(twenty_week_data)
        twenty_week_roc ==
            IF Length(twenty_week_data) >= WindowBars
            THEN PctChange(current_price, twenty_week_data.rows[1].Close)
            ELSE Frac(0, 1)
    IN  [Company |-> company_name,
         Ticker |-> ticker,
         CurrentPrice |-> FmtMoney(current_price),
         PriceChangePct |-> FmtSigned(pct_change),
         High20W |-> FmtMoney(twenty_week_high),
         ROC20W |-> FmtSigned(twenty_week_roc),
         Regime |-> NoRegime,
         price_change_num |-> pct_change,
         twenty_week_roc_num |-> twenty_week_roc]

\* Lines 160-184: the row of one instrument from its non-empty history.
Metrics(hist, ticker, company_name) ==
    LET current_price == hist.rows[Length(hist)].Close
        prev_close == IF Length(hist) >= 2 THEN hist.rows[Length(hist) - 1].Close
                      ELSE current_price
        pct_change == PctChange(current_price, prev_close)
        twenty_week_data == HistTail(hist, Min(WindowBars, Length(hist)))
        twenty_week_high == MaxHigh(twenty_week_data)
        twenty_week_roc ==
            IF Length(twenty_week_data) >= RocMinBars
            THEN PctChange(current_price, twenty_week_data.rows[1].Close)
            ELSE Frac(0, 1)
    IN  [Company |-> company_name,
         Ticker |-> ticker,
         CurrentPrice |-> FmtMoney(current_price),
         PriceChangePct |-> FmtSigned(pct_change),
         High20W |-> FmtMoney(twenty_week_high),
         ROC20W |-> FmtSigned(twenty_week_roc),
         Regime |-> NoRegime,
         price_change_num |-> pct_change,
         twenty_week_roc_num |-> twenty_week_roc]

\* Lines 137-152: one invocation of _fetch_stock_data.
FetchStockData(ticker, resp) ==
    IF resp.kind = "err" THEN Err(resp.msg)
    ELSE IF Length(resp.hist) = 0 THEN Ok(<<None, None>>)
    ELSE Ok(<<resp.hist,
              IF resp.info.kind = "dict" /\ resp.info.has
              THEN resp.info.longName ELSE ticker>>)

\* Lines 154-186 after the fetch: how get_stock_data ends for the retry
\* wrapper's outcome.  A raised failure is caught at line 185; unpacking the
\* wrapper's own None raises a TypeError, caught there too.
StockDataOf(res, ticker) ==
    IF res.kind = "raise" THEN [kind |-> "return", val |-> None]
    ELSE IF res.kind = "none" THEN [kind |-> "return", val |-> None]
    ELSE IF res.val[1] = None \/ Length(res.val[1]) = 0
    THEN [kind |-> "return", val |-> None]
    ELSE [kind |-> "return", val |-> Metrics(res.val[1], ticker, res.val[2])]

\* get_stock_data(ticker): how it ends (kind "return" with data, or "raise"),
\* with the fetches it made and the sleeps between them.
get_stock_data(ticker, resps, jitter) ==
    LET res == retry_with_backoff(
                   [n \in 1..Len(resps) |-> FetchStockData(ticker, resps[n])],
                   StockMaxRetries, StockBaseDelay, jitter)
        out == StockDataOf(res, ticker)
    IN  [kind |-> out.kind,
         data |-> out.val,
         calls |-> res.calls,
         sleeps |-> res.sleeps]

\* ------------------------------------------------------- get_regime_filter

\* max_retries and base_delay (1 s) of the reference fetch (the defaults of
\* line 89, taken at line 111).
RegimeMaxRetries == 3
RegimeBaseDelay == 2

\* Lines 106-108: one invocation of _get_spy_data.
GetSpyData(resp) ==
    IF resp.kind = "err" THEN Err(resp.msg) ELSE Ok(resp.hist)

\* x > 0.1 and x < -0.1 for a fraction x.
GtTenth(x) == x.num * 10 > x.den
LtMinusTenth(x) == x.num * 10 < 0 - x.den

\* Lines 117-129: the regime of a history of at least two bars.
Classify(hist) ==
    LET current_price == hist.rows[Length(hist)].Close
        previous_price == hist.rows[Length(hist) - 1].Close
        daily_change == PctChange(current_price, previous_price)
    IN  IF GtTenth(daily_change) THEN "UP"
        ELSE IF LtMinusTenth(daily_change) THEN "DOWN"
        ELSE "FLAT"

\* A faulty variant: the try of line 110 without its except; the failure escapes.
RegimeOf_NoExcept(res) ==
    IF res.kind = "raise" THEN [kind |-> "raise", val |-> "UNKNOWN"]
    ELSE IF res.val = None \/ Length(res.val) < 2
    THEN [kind |-> "return", val |-> "UNKNOWN"]
    ELSE [kind |-> "return", val |-> Classify(res.val)]

\* A faulty variant: `len(hist) < 1` at line 113; a one-bar history is given a regime
\* from its only close.
RegimeOf_OneBar(res) ==
    IF res.kind = "raise" THEN [kind |-> "return", val |-> "UNKNOWN"]
    ELSE IF res.val = None \/ Length(res.val) < 1
    THEN [kind |-> "return", val |-> "UNKNOWN"]
    ELSE IF Length(res.val) = 1 THEN [kind |-> "return", val |-> "FLAT"]
    ELSE [kind |-> "return", val |-> Classify(res.val)]

\* Lines 110-133 after the fetch: how get_regime_filter ends for the retry
\* wrapper's outcome.
RegimeOf(res) ==
    IF res.kind = "raise" THEN [kind |-> "return", val |-> "UNKNOWN"]
    ELSE IF res.val = None \/ Length(res.val) < 2
    THEN [kind |-> "return", val |-> "UNKNOWN"]
    ELSE [kind |-> "return", val |-> Classify(res.val)]

\* The body of get_regime_filter (without its cache).
get_regime_filter(resps, jitter) ==
    LET res == retry_with_backoff([n \in 1..Len(resps) |-> GetSpyData(resps[n])],
                                  RegimeMaxRetries, RegimeBaseDelay, jitter)
        out == RegimeOf(res)
    IN  [kind |-> out.kind, val |-> out.val, calls |-> res.calls]

\* A history with the given closes.
Closes(cs) == DataFrame([k \in 1..Len(cs) |-> Bar(cs[k], cs[k] + 2)])

\* ------------------------------------- SpecMetrics: get_stock_data alone

MetricsHists == {MakeHist(n, shape) : n \in 0..MaxBars, shape \in Shapes}

\* The fetch answers at once, or after one rate-limited attempt.
MetricsScripts ==
    {<<RespHist(h, info), RespErr(MsgNotFound)>> :
        h \in MetricsHists, info \in {InfoRaises, InfoNamed}}
    \cup {<<RespErr(MsgTooMany), RespHist(h, InfoEmpty)>> : h \in MetricsHists}

InitMetrics ==
    /\ RetryIdle
    /\ RegimeIdle
    /\ MainIdle
    /\ m_ticker \in {FallbackList[1]}
    /\ m_resps \in MetricsScripts
    /\ m_jit \in [1..StockMaxRetries -> Jitters]
    /\ m_res = Pending

CallGetStockData ==
    /\ m_res = Pending
    /\ m_res' = get_stock_data(m_ticker, m_resps, m_jit)
    /\ UNCHANGED <<m_ticker, m_resps, m_jit, retryVars, regimeVars, mainVars,
                   histVars>>

NextMetrics == CallGetStockData

SpecMetrics == InitMetrics /\ [][NextMetrics]_vars

\* --------------------------------- SpecRegime: get_regime_filter's body alone

\* The reference histories: none, one bar, and two or more bars that fell by
\* 1%, rose by exactly 0.1%, rose by 0.2%, fell by exactly 0.1%, fell by 0.2%.
SpyHists == {Closes(<<>>), Closes(<<200>>), Closes(<<200, 198>>),
             Closes(<<1000, 1001>>), Closes(<<1000, 1002>>),
             Closes(<<1000, 999>>), Closes(<<900, 1000, 998>>)}

SpyResponses ==
    {RespHist(h, InfoEmpty) : h \in SpyHists}
    \cup {RespErr(m) : m \in {MsgRateLimit, MsgTooMany, MsgNotFound, MsgNearMiss}}

InitRegime ==
    /\ RetryIdle
    /\ MetricsIdle
    /\ MainIdle
    /\ g_resps \in [1..RegimeMaxRetries -> SpyResponses]
    /\ g_jit \in [1..RegimeMaxRetries -> Jitters]
    /\ g_res = Pending

CallGetRegimeFilter ==
    /\ g_res = Pending
    /\ g_res' = get_regime_filter(g_resps, g_jit)
    /\ UNCHANGED <<g_resps, g_jit, retryVars, metricsVars, mainVars, histVars>>

NextRegime == CallGetRegimeFilter

SpecRegime == InitRegime /\ [][NextRegime]_vars

\* ------------------------------------------------------- st.cache_data

\* ttl of get_regime_filter's cache (line 103) and of get_sp500_tickers'
\* (line 75), in seconds.
RegimeTTL == 600
TickersTTL == 300
\* time.sleep(300) of line 346.
RefreshSleep == 300
\* `consecutive_failures >= 5` of line 279.
ConsecutiveFailureLimit == 5

\* A cached value is served while it is younger than its ttl.  Time passes
\* in the instrument loop, in the sleep before a rerun and while the user
\* waits; the two cached fetches themselves are taken to be instantaneous.
CacheHit(entry, ttl) == entry.has /\ entry.age < ttl

\* The entry dt seconds later (ages past the ttl are all alike).
Aged(entry, dt, ttl) ==
    IF entry.has THEN [entry EXCEPT !.age = Min(@ + dt, ttl)] ELSE entry

Stored(v) == [has |-> TRUE, val |-> v, age |-> 0]

\* ------------------------------------------------------- main()

\* tickers[:num_stocks]
Requested == SubSeq(tickers, 1, Min(num_stocks, Len(tickers)))

\* A faulty variant: line 271 dropped; the row keeps the None of line 181.
LabelRow_Unlabelled(data, r) == data

\* data['Regime'] = regime (line 271)
LabelRow(data, r) == [data EXCEPT !.Regime = r]

\* a < b for fractions
FracLess(a, b) == a.num * b.den < b.num * a.den

\* Row r put into rows, already in descending order of '_twenty_week_roc_num',
\* after the rows that are not smaller.
RECURSIVE InsertDesc(_, _)
InsertDesc(rows, r) ==
    IF rows = <<>> THEN <<r>>
    ELSE IF FracLess(Head(rows).twenty_week_roc_num, r.twenty_week_roc_num)
    THEN <<r>> \o rows
    ELSE <<Head(rows)>> \o InsertDesc(Tail(rows), r)

\* df.sort_values('_twenty_week_roc_num', ascending=False)
RECURSIVE SortDesc(_)
SortDesc(rows) ==
    IF rows = <<>> THEN <<>>
    ELSE InsertDesc(SortDesc(SubSeq(rows, 1, Len(rows) - 1)), rows[Len(rows)])

\* df_sorted.drop(['_price_change_num', '_twenty_week_roc_num'], axis=1)
DisplayRow(r) ==
    [Company |-> r.Company, Ticker |-> r.Ticker, CurrentPrice |-> r.CurrentPrice,
     PriceChangePct |-> r.PriceChangePct, High20W |-> r.High20W,
     ROC20W |-> r.ROC20W, Regime |-> r.Regime]

\* Lines 294-342: what is rendered for the rows collected.
ViewOf(rows, failed) ==
    IF rows # <<>>
    THEN [kind |-> "table",
          rows |-> [k \in 1..Len(rows) |-> DisplayRow(SortDesc(rows)[k])],
          processed |-> Len(rows),
          up |-> Cardinality({k \in 1..Len(rows) : rows[k].price_change_num.num > 0}),
          down |-> Cardinality({k \in 1..Len(rows) : rows[k].price_change_num.num < 0}),
          failed |-> failed]
    ELSE [kind |-> "error", rows |-> <<>>, processed |-> 0, up |-> 0, down |-> 0,
          failed |-> failed]

\* What the market-data source may answer for SPY during a run.
RegimeCycleResponses ==
    {RespErr(MsgTooMany), RespErr(MsgNotFound),
     RespHist(Closes(<<200>>), InfoEmpty),
     RespHist(Closes(<<200, 198>>), InfoEmpty),
     RespHist(Closes(<<1000, 1002>>), InfoEmpty),
     RespHist(Closes(<<1000, 1001>>), InfoEmpty)}

\* The user acts while the script sleeps or has ended, or during the loop:
\* the run under way is abandoned and the script runs again.
Interruptible == pc \in {"loop", "idle"}

\* What the market-data source may answer for an instrument during a run.
CycleResponses ==
    {RespErr(MsgTooMany), RespErr(MsgNotFound),
     RespHist(Closes(<<>>), InfoEmpty),
     RespHist(Closes(<<100, 105>>), InfoNamed),
     RespHist(MakeHist(60, "up"), InfoRaises)}

\* The draws of random.uniform(0, 1) of one call of the retry wrapper.
JitterDraws(n) == [1..n -> Jitters]

\* Every way get_regime_filter's body may run.
RegimeRuns ==
    {get_regime_filter(resps, jit) :
        resps \in [1..RegimeMaxRetries -> RegimeCycleResponses],
        jit \in JitterDraws(RegimeMaxRetries)}

\* Every way pd.read_html may answer get_sp500_tickers.
TickersRuns == {get_sp500_tickers(resp) : resp \in {ListingErr, ListingOk}}

\* Every symbol main may ask get_stock_data for.
Universe ==
    {FallbackTickers[k] : k \in 1..Len(FallbackTickers)}
    \cup {ReplaceDot(ListedSymbols[k]) : k \in 1..Len(ListedSymbols)}

\* One run of get_stock_data, with the first answer to its fetch.
StockRun(ticker, resps, jit) ==
    [first |-> [kind |-> resps[1].kind, msg |-> resps[1].msg,
                bars |-> Length(resps[1].hist)],
     out |-> get_stock_data(ticker, resps, jit)]

\* Every way get_stock_data may run, by ticker.
StockRuns ==
    [t \in Universe |->
        {StockRun(t, resps, jit) :
            resps \in [1..StockMaxRetries -> CycleResponses],
            jit \in JitterDraws(StockMaxRetries)}]

\* The locals of a run that has not reached them yet.
FreshLocals ==
    /\ regime' = "unset"
    /\ tickers' = <<>>
    /\ loop_i' = 0
    /\ stock_data' = <<>>
    /\ failed_count' = 0
    /\ consecutive_failures' = 0
    /\ view' = NoView
    /\ regime_src' = "none"
    /\ regime_age' = 0
    /\ tickers_src' = "none"
    /\ last_fetch' = NoFetch

Init ==
    /\ RetryIdle
    /\ MetricsIdle
    /\ RegimeIdle
    /\ pc = "regime"
    /\ auto_refresh = TRUE
    /\ num_stocks = SliderMin
    /\ regime = "unset"
    /\ tickers = <<>>
    /\ loop_i = 0
    /\ stock_data = <<>>
    /\ failed_count = 0
    /\ consecutive_failures = 0
    /\ view = NoView
    /\ regime_cache = NoRegimeEntry
    /\ tickers_cache = NoTickersEntry
    /\ trigger = "start"
    /\ regime_src = "none"
    /\ regime_age = 0
    /\ tickers_src = "none"
    /\ last_fetch = NoFetch

\* Lines 234-246: regime = get_regime_filter(), through its cache.
LoadRegime ==
    /\ pc = "regime"
    /\ IF CacheHit(regime_cache, RegimeTTL)
       THEN /\ regime' = regime_cache.val
            /\ regime_src' = "cache"
            /\ regime_age' = regime_cache.age
            /\ pc' = "tickers"
            /\ UNCHANGED regime_cache
       ELSE \E r \in RegimeRuns :
                    IF r.kind = "raise"
                    THEN /\ pc' = "crashed"
                         /\ UNCHANGED <<regime, regime_src, regime_age, regime_cache>>
                    ELSE /\ regime' = r.val
                         /\ regime_src' = "fetch"
                         /\ regime_age' = 0
                         /\ regime_cache' = Stored(r.val)
                         /\ pc' = "tickers"
    /\ UNCHANGED <<auto_refresh, num_stocks, tickers, loop_i, stock_data,
                   failed_count, consecutive_failures, view, tickers_cache,
                   trigger, tickers_src, last_fetch>>
    /\ UNCHANGED <<retryVars, metricsVars, regimeVars>>

\* Lines 251-263: tickers = get_sp500_tickers(), through its cache, and the
\* loop's counters.
LoadTickers ==
    /\ pc = "tickers"
    /\ IF CacheHit(tickers_cache, TickersTTL)
       THEN /\ tickers' = tickers_cache.val
            /\ tickers_src' = "cache"
            /\ pc' = "loop"
            /\ UNCHANGED tickers_cache
       ELSE \E r \in TickersRuns :
                    IF r.kind = "raise"
                    THEN /\ pc' = "crashed"
                         /\ UNCHANGED <<tickers, tickers_src, tickers_cache>>
                    ELSE /\ tickers' = r.val
                         /\ tickers_src' = "fetch"
                         /\ tickers_cache' = Stored(r.val)
                         /\ pc' = "loop"
    /\ stock_data' = <<>>
    /\ failed_count' = 0
    /\ consecutive_failures' = 0
    /\ loop_i' = 0
    /\ UNCHANGED <<auto_refresh, num_stocks, regime, view, regime_cache,
                   trigger, regime_src, regime_age, last_fetch>>
    /\ UNCHANGED <<retryVars, metricsVars, regimeVars>>

\* Lines 265-288: one iteration of the loop over tickers[:num_stocks]; after
\* the last, lines 291-292 lead to the rendering.
ProcessTicker ==
    /\ pc = "loop"
    /\ loop_i < Len(Requested)
    /\ \E run \in StockRuns[Requested[loop_i + 1]], dt \in {0, SlowIteration} :
          LET r == run.out
              failures == consecutive_failures + 1
          IN  /\ last_fetch' = [kind |-> run.first.kind, msg |-> run.first.msg,
                                bars |-> run.first.bars, calls |-> r.calls,
                                row |-> r.kind = "return" /\ r.data # None]
              /\ regime_cache' = Aged(regime_cache, dt, RegimeTTL)
              /\ tickers_cache' = Aged(tickers_cache, dt, TickersTTL)
              /\ IF r.kind = "raise"
                 THEN /\ pc' = "crashed"
                      /\ UNCHANGED <<loop_i, stock_data, failed_count,
                                     consecutive_failures>>
                 ELSE /\ IF r.data # None
                         THEN /\ stock_data' = Append(stock_data, LabelRow(r.data, regime))
                              /\ consecutive_failures' = 0
                              /\ UNCHANGED failed_count
                         ELSE /\ failed_count' = failed_count + 1
                              /\ consecutive_failures' =
                                    IF failures >= ConsecutiveFailureLimit
                                    THEN 0 ELSE failures
                              /\ UNCHANGED stock_data
                      /\ loop_i' = loop_i + 1
                      /\ pc' = IF loop_i + 1 = Len(Requested) THEN "render" ELSE "loop"
    /\ UNCHANGED <<auto_refresh, num_stocks, regime, tickers, view,
                   trigger, regime_src, regime_age, tickers_src>>
    /\ UNCHANGED <<retryVars, metricsVars, regimeVars>>

\* Lines 294-342: the table and its counts, or the error message.
Render ==
    /\ pc = "render"
    /\ view' = ViewOf(stock_data, failed_count)
    /\ pc' = "idle"
    /\ UNCHANGED <<auto_refresh, num_stocks, regime, tickers, loop_i, stock_data,
                   failed_count, consecutive_failures, regime_cache, tickers_cache>>
    /\ UNCHANGED <<histVars, retryVars, metricsVars, regimeVars>>

\* Lines 345-347: time.sleep(300); st.rerun().
AutoRefresh ==
    /\ pc = "idle"
    /\ auto_refresh
    /\ regime_cache' = Aged(regime_cache, RefreshSleep, RegimeTTL)
    /\ tickers_cache' = Aged(tickers_cache, RefreshSleep, TickersTTL)
    /\ pc' = "regime"
    /\ trigger' = "auto"
    /\ FreshLocals
    /\ UNCHANGED <<auto_refresh, num_stocks>>
    /\ UNCHANGED <<retryVars, metricsVars, regimeVars>>

\* A faulty variant: the button reruns without clearing the cache.
ManualRefresh_NoClear ==
    /\ Interruptible
    /\ pc' = "regime"
    /\ trigger' = "manual"
    /\ FreshLocals
    /\ UNCHANGED <<auto_refresh, num_stocks, regime_cache, tickers_cache>>
    /\ UNCHANGED <<retryVars, metricsVars, regimeVars>>

\* Lines 215-217: the button: st.cache_data.clear(); st.rerun().
ManualRefresh ==
    /\ Interruptible
    /\ regime_cache' = NoRegimeEntry
    /\ tickers_cache' = NoTickersEntry
    /\ pc' = "regime"
    /\ trigger' = "manual"
    /\ FreshLocals
    /\ UNCHANGED <<auto_refresh, num_stocks>>
    /\ UNCHANGED <<retryVars, metricsVars, regimeVars>>

\* Lines 211-213: the checkbox or the slider is changed, at once or some time
\* later, and the script runs again.
ChangeControls ==
    /\ Interruptible
    /\ \E a \in BOOLEAN, n \in SliderMin..SliderMax, dt \in {0, SlowIteration} :
          /\ <<a, n>> # <<auto_refresh, num_stocks>>
          /\ auto_refresh' = a
          /\ num_stocks' = n
          /\ regime_cache' = Aged(regime_cache, dt, RegimeTTL)
          /\ tickers_cache' = Aged(tickers_cache, dt, TickersTTL)
    /\ pc' = "regime"
    /\ trigger' = "widget"
    /\ FreshLocals
    /\ UNCHANGED <<retryVars, metricsVars, regimeVars>>

Next ==
    \/ LoadRegime
    \/ LoadTickers
    \/ ProcessTicker
    \/ Render
    \/ AutoRefresh
    \/ ManualRefresh
    \/ ChangeControls

Spec == Init /\ [][Next]_vars

\* ------------------------------------------------- claims on the retry wrapper

\* The messages by what they are, told apart without the code's test.
RateLimitMsgs == {MsgRateLimit, MsgTooMany}
NonRateLimitMsgs == {MsgNotFound, MsgNearMiss}

RetryDone == r_res # Pending

\* The operation fails with a rate-limit message on each of its first n calls.
RateLimitedFor(n) ==
    \A k \in 1..n : r_func[k].kind = "err" /\ r_func[k].msg \in RateLimitMsgs

\* C1: with max_retries >= 1 and an operation whose failures are all
\* non-rate-limit ones and whose first call fails, the operation is invoked
\* exactly once, that failure is raised to the caller, and nothing sleeps.
C1_NonRateLimitFailsFast ==
    ( /\ RetryDone
      /\ r_max >= 1
      /\ \A k \in 1..MaxRetries :
            r_func[k].kind = "err" => r_func[k].msg \in NonRateLimitMsgs
      /\ r_func[1].kind = "err" )
    => /\ r_res.kind = "raise"
       /\ r_res.msg = r_func[1].msg
       /\ r_res.calls = 1
       /\ r_res.sleeps = <<>>

C1_Witness ==
    /\ RetryDone
    /\ r_max = MaxRetries
    /\ \A k \in 1..MaxRetries : r_func[k] = Err(MsgNearMiss)
    /\ r_res.kind = "raise"
    /\ r_res.calls = 1

\* C2: an operation that raises a rate-limit error N-1 times and then succeeds,
\* 1 <= N <= max_retries: the success value is returned, the operation is
\* invoked exactly N times, N-1 sleeps occur, and the sleep after attempt k
\* (0-based) is at least base_delay * 2^k.
C2_RetriesThenSucceeds ==
    \A N \in 1..MaxRetries :
        ( /\ RetryDone
          /\ N <= r_max
          /\ RateLimitedFor(N - 1)
          /\ r_func[N].kind = "ok" )
        => /\ r_res.kind = "return"
           /\ r_res.val = r_func[N].val
           /\ r_res.calls = N
           /\ Len(r_res.sleeps) = N - 1
           /\ \A k \in 0..(N - 2) : r_res.sleeps[k + 1] >= r_base * (2 ^ k)

C2_Witness ==
    /\ RetryDone
    /\ r_max = MaxRetries
    /\ r_func[1] = Err(MsgRateLimit)
    /\ r_func[2] = Err(MsgTooMany)
    /\ r_func[3] = Ok([v |-> 2])
    /\ r_res.kind = "return"
    /\ r_res.val = [v |-> 2]
    /\ Len(r_res.sleeps) = 2

\* C3: an operation that always raises a rate-limit error: for every
\* max_retries >= 1 the wrapper raises after exactly max_retries invocations
\* and max_retries - 1 sleeps (none after the final failed attempt).
C3_ExhaustionRaises ==
    ( /\ RetryDone
      /\ r_max >= 1
      /\ RateLimitedFor(r_max) )
    => /\ r_res.kind = "raise"
       /\ r_res.msg = r_func[r_max].msg
       /\ r_res.calls = r_max
       /\ Len(r_res.sleeps) = r_max - 1

C3_Witness ==
    /\ RetryDone
    /\ r_max = 3
    /\ RateLimitedFor(3)
    /\ r_res.kind = "raise"
    /\ r_res.calls = 3
    /\ Len(r_res.sleeps) = 2

\* C10: for max_retries >= 1 the wrapper either returns the value its last
\* invocation returned or raises the error of its last invocation; the
\* wrapper's own None (line 101) is produced exactly when max_retries <= 0,
\* and then the operation is never invoked.
C10_ReturnOrRaise ==
    RetryDone =>
        /\ r_max >= 1 =>
              /\ r_res.calls \in 1..r_max
              /\ \/ /\ r_res.kind = "return"
                    /\ r_func[r_res.calls].kind = "ok"
                    /\ r_res.val = r_func[r_res.calls].val
                 \/ /\ r_res.kind = "raise"
                    /\ r_func[r_res.calls].kind = "err"
                    /\ r_res.msg = r_func[r_res.calls].msg
        /\ (r_res.kind = "none") <=> (r_max <= 0)
        /\ r_max <= 0 => r_res.calls = 0 /\ r_res.val = None

C10_Witness ==
    /\ RetryDone
    /\ r_max = 2
    /\ r_func[1] = Err(MsgTooMany)
    /\ r_func[2] = Err(MsgNotFound)
    /\ r_res.kind = "raise"
    /\ r_res.msg = MsgNotFound
    /\ r_res.calls = 2

\* ------------------------------------------------- claims on the metrics

\* The history get_stock_data worked on: the answer to its last fetch.
UsedHist == m_resps[m_res.calls].hist.rows

\* C8: for a non-empty history the rate of change is computed over the most
\* recent min(100, length) bars only when that window has at least 50 bars, as
\* (current - oldest close in the window) / oldest close in the window * 100;
\* for a shorter window it is exactly 0 whatever the prices did.
C8_WindowRateOfChange ==
    ( /\ m_res # Pending
      /\ m_resps[m_res.calls].kind = "hist"
      /\ Len(UsedHist) >= 1 )
    => LET n == Len(UsedHist)
           w == IF n < 100 THEN n ELSE 100
           cur == UsedHist[n].Close
           old == UsedHist[n - w + 1].Close
           roc == m_res.data.twenty_week_roc_num
       IN  /\ m_res.data # None
           /\ IF w >= 50
              THEN roc.num * old = (cur - old) * 100 * roc.den
              ELSE roc.num = 0

\* A 101-bar rising history: the window drops the oldest bar, and the rate of
\* change is measured from bar 2.
C8_Witness ==
    /\ m_res # Pending
    /\ m_res.calls = 2
    /\ DataFrame(UsedHist) = MakeHist(101, "up")
    /\ m_res.data # None
    /\ m_res.data.twenty_week_roc_num = Frac(9900, 102)

\* A 49-bar history whose price moved: the rate of change is 0.
C8_WitnessShort ==
    /\ m_res # Pending
    /\ DataFrame(UsedHist) = MakeHist(49, "up")
    /\ m_res.data # None
    /\ m_res.data.twenty_week_roc_num.num = 0

\* ------------------------------------------------- claims on the regime

\* How many leading answers of the reference source are rate-limit failures.
RECURSIVE LeadingRateLimits(_, _)
LeadingRateLimits(resps, k) ==
    IF k > Len(resps) THEN 0
    ELSE IF resps[k].kind = "err" /\ resps[k].msg \in RateLimitMsgs
    THEN 1 + LeadingRateLimits(resps, k + 1)
    ELSE 0

\* The answer that decides the fetch: the first that is no rate-limit failure,
\* or the third when all three attempts are rate limited.
Deciding(resps) == resps[Min(LeadingRateLimits(resps, 1) + 1, 3)]

\* C7: get_regime_filter never propagates an error; it returns UNKNOWN when
\* the reference fetch fails (a non-rate-limit error, or rate-limit errors on
\* all 3 attempts) or the history has fewer than 2 bars, and one of UP, DOWN,
\* FLAT in every other case.
C7_RegimeUnknownOnFailure ==
    g_res # Pending =>
        /\ g_res.kind = "return"
        /\ IF Deciding(g_resps).kind = "err" \/ Length(Deciding(g_resps).hist) < 2
           THEN g_res.val = "UNKNOWN"
           ELSE g_res.val \in {"UP", "DOWN", "FLAT"}

\* Rate limited on all three attempts.
C7_Witness ==
    /\ g_res # Pending
    /\ \A k \in 1..3 : g_resps[k].kind = "err" /\ g_resps[k].msg \in RateLimitMsgs
    /\ g_res.calls = 3
    /\ g_res.val = "UNKNOWN"

\* The spec's scenario: closes [200, 198] are classified DOWN.
RegimeScenarioDown ==
    /\ g_res # Pending
    /\ g_resps[1] = RespHist(Closes(<<200, 198>>), InfoEmpty)
    /\ g_res.val = "DOWN"

\* ------------------------------------------------- claims on the refresh cycle

\* The loop is over, or the script has ended.
AfterLoop == pc \in {"render", "idle"}

\* C4: no exception escapes a run of main(): whatever the listing, the
\* reference source and the instruments' fetches do, the loop goes through
\* every requested instrument and the rendering is reached; an empty result
\* set is rendered as the "try refreshing" error message.
C4_NoExceptionEscapes ==
    /\ pc # "crashed"
    /\ AfterLoop => loop_i = Len(Requested)
    /\ pc = "idle" =>
          /\ view.kind = IF stock_data = <<>> THEN "error" ELSE "table"
          /\ view.failed = failed_count

\* Everything failed: the listing (the fallback universe is used), the regime
\* (UNKNOWN) and every instrument.
C4_Witness ==
    /\ pc = "idle"
    /\ regime = "UNKNOWN"
    /\ tickers = FallbackTickers
    /\ stock_data = <<>>
    /\ failed_count = Len(FallbackTickers)
    /\ view.kind = "error"

\* The last instrument failed permanently: its first fetch raised a
\* non-rate-limit error or gave an empty history.
PermanentFailure ==
    \/ last_fetch.kind = "err" /\ last_fetch.msg \in NonRateLimitMsgs
    \/ last_fetch.kind = "hist" /\ last_fetch.bars = 0

C5_Counts ==
    /\ pc \in {"loop", "render", "idle"} => Len(stock_data) + failed_count = loop_i
    /\ AfterLoop => loop_i = Len(Requested)
    /\ PermanentFailure => last_fetch.calls = 1 /\ ~last_fetch.row

C5_Iteration ==
    loop_i' = loop_i + 1 =>
        \/ /\ Len(stock_data') = Len(stock_data) + 1
           /\ SubSeq(stock_data', 1, Len(stock_data)) = stock_data
           /\ stock_data'[Len(stock_data')].Ticker = Requested[loop_i + 1]
           /\ failed_count' = failed_count
        \/ /\ stock_data' = stock_data
           /\ failed_count' = failed_count + 1

\* C5: every processed instrument ends in exactly one of two ways, one row
\* appended or failed_count incremented by 1; an instrument that fails
\* permanently is fetched exactly once and does not stop the loop; at the end
\* of the cycle rows + failed_count is the number of instruments requested.
C5_RowOrFailure == []C5_Counts /\ [][C5_Iteration]_vars

\* The spec's scenario: universe [AAPL, MSFT], AAPL with closes [100, 105],
\* MSFT failing permanently: one row, +5.00%, rate of change 0, one failure.
C5_Witness ==
    /\ pc = "idle"
    /\ tickers = <<FallbackList[1], FallbackList[2]>>
    /\ Len(stock_data) = 1
    /\ stock_data[1].Ticker = FallbackList[1]
    /\ stock_data[1].PriceChangePct = [sign |-> "+", hundredths |-> 500]
    /\ stock_data[1].twenty_week_roc_num.num = 0
    /\ failed_count = 1
    /\ PermanentFailure
    /\ last_fetch.calls = 1

C6_Labels ==
    pc \in {"tickers", "loop", "render", "idle"} =>
        /\ regime_cache.has
        /\ regime = regime_cache.val
        /\ \A k \in 1..Len(stock_data) : stock_data[k].Regime = regime
        /\ \A k \in 1..Len(view.rows) : view.rows[k].Regime = regime

\* A step of a run that the run survives (no rerun starts) keeps the regime.
C6_Fixed ==
    (pc \in {"tickers", "loop", "render"} /\ pc' # "regime") => regime' = regime

\* C6: the regime is fixed before any row is labelled: every row of the
\* cycle carries the value get_regime_filter returned at the start of the
\* cycle, and that value does not change while rows are collected.
C6_RegimeFixedPerCycle == []C6_Labels /\ [][C6_Fixed]_vars

C6_Witness ==
    /\ pc = "idle"
    /\ regime = "DOWN"
    /\ Len(stock_data) >= 2
    /\ \A k \in 1..Len(stock_data) : stock_data[k].Regime = "DOWN"
    /\ view.kind = "table"

\* C9 as stated: every manual or periodic refresh derives the regime from a
\* fresh reference-index fetch and fetches the universe anew.
C9_EveryRefreshFetchesAnew ==
    trigger \in {"auto", "manual"} =>
        /\ regime_src \in {"none", "fetch"}
        /\ tickers_src \in {"none", "fetch"}

\* C9 as amended: a manual refresh clears the cache, so its cycle fetches the
\* reference index and the universe anew; a periodic refresh fetches the
\* universe anew (its 300 s entry has expired) but takes the regime from the
\* cache whenever the cached value is less than 600 s old.
C9_RefreshAndCache ==
    /\ trigger \in {"start", "manual"} =>
          /\ regime_src \in {"none", "fetch"}
          /\ tickers_src \in {"none", "fetch"}
    /\ trigger = "auto" => tickers_src \in {"none", "fetch"}
    /\ regime_src = "cache" =>
          /\ regime_age < 600
          /\ trigger = "auto" => regime_age >= 300

\* A periodic refresh whose cycle shows the regime of the cycle before.
C9_Witness ==
    /\ trigger = "auto"
    /\ pc = "idle"
    /\ regime_src = "cache"
    /\ regime_age = 300
    /\ tickers_src = "fetch"
    /\ view.kind = "table"

====
